---- MODULE Spec2Model ----
(***************************************************************************)
(* Model of the catalog core of fragrances-jamaica: the useProducts hook   *)
(* (filter state store, debounce gate, fuzzy search, predicate pipeline,   *)
(* sort engine, active-filter count).                                      *)
(*                                                                         *)
(* Text (name, brand, raw_name, search text) is a tuple of one-character   *)
(* strings, so that case folding, fuzzy matching and collation can be      *)
(* computed.  Product type and size are only compared for equality and     *)
(* tested for truthiness, so they are plain strings.                       *)
(***************************************************************************)
EXTENDS Integers, Sequences, FiniteSets, TLC

VARIABLES
    allProducts,        \* the products prop handed to useProducts
    filters,            \* useState<FilterState>
    debouncedSearch,    \* value returned by useDebounce(filters.search, 200)
    timers,             \* pending debounce timeouts: the text each will commit
    searchIndex,        \* useMemo: documents held by the Fuse index
    filteredProducts,   \* useMemo: output of the filtering pipeline
    activeFilterCount,  \* useMemo: number of active filters
    mounted,            \* the catalog session is alive
    justCleared,        \* history: this state was produced by clearFilters
    indexRebuilt,       \* history: the render that produced this state ran
                        \* the factory of the searchIndex memo
    grid                \* ProductGrid: length of its products prop, its
                        \* visibleCount, and whether the mounted load-more
                        \* sentinel is observed

vars == <<allProducts, filters, debouncedSearch, timers, searchIndex,
          filteredProducts, activeFilterCount, mounted, justCleared,
          indexRebuilt, grid>>

\* the state of useProducts
hookVars == <<allProducts, filters, debouncedSearch, timers, searchIndex,
              filteredProducts, activeFilterCount, mounted, justCleared,
              indexRebuilt>>

----------------------------------------------------------------------------
(* Representation of JavaScript null *)

\* null for a nullable text (FilterState.brand)
NullText == <<"null">>
\* null for a nullable string (Product.type, Product.size)
NullStr == "null"
\* null for a nullable number (Product.price); prices are non-negative
NullPrice == -1

\* JavaScript truthiness of string | null: null and "" are falsy
TruthyText(t) == t # NullText /\ t # <<>>
TruthyStr(s) == s # NullStr /\ s # ""

----------------------------------------------------------------------------
(* Sequence helpers *)

Range(s) == {s[i] : i \in 1..Len(s)}

\* Array.prototype.includes
Includes(s, x) == \E i \in 1..Len(s) : s[i] = x

\* Array.prototype.filter with the predicate "differs from x"
RECURSIVE Without(_, _)
Without(s, x) ==
    IF s = <<>> THEN <<>>
    ELSE IF Head(s) = x THEN Without(Tail(s), x)
         ELSE <<Head(s)>> \o Without(Tail(s), x)

NoDuplicates(s) == \A i, j \in 1..Len(s) : i # j => s[i] # s[j]

Min2(a, b) == IF a <= b THEN a ELSE b
Max2(a, b) == IF a >= b THEN a ELSE b
Min3(a, b, c) == Min2(a, Min2(b, c))

----------------------------------------------------------------------------
(* Input domains *)

Genders == {"all", "men", "women", "unisex"}
SortOptions == {"name-asc", "name-desc", "price-asc", "price-desc", "brand-asc"}

SearchTexts == { <<>>, <<"o">>, <<"o", "u">>, <<"o", "u", "d">> }

\* arguments the hook's operations accept (string | null, string, any pair)
BrandArgs == { NullText, <<>>, <<"A">> }
TypeArgs == { "", "EDP" }
SizeArgs == { "", "1 oz" }
PriceRangeArgs == { <<0, 1000>>, <<0, 40>>, <<0, 1020>>, <<50, 40>> }

\* arguments the catalog's controls pass: BrandFilter passes a brand name or
\* null, FilterChips an entry of FRAG_TYPES / COMMON_SIZES, the price controls
\* an ordered range up to the slider's maximum (the highest price rounded up
\* to a multiple of 50)
BrandChoices == { NullText, <<"A">> }
FRAG_TYPES == { "EDP" }
COMMON_SIZES == { "1 oz" }
PriceRangeChoices == { <<0, 1000>>, <<0, 1020>> }

P1 == [id |-> "1", brand |-> <<"A">>, name |-> <<"r", "o", "s">>,
       raw_name |-> <<"A", "r", "o", "s">>, size |-> "1 oz", type |-> "EDP",
       gender |-> "women", price |-> 50]
P2 == [id |-> "2", brand |-> <<"B">>, name |-> <<"O", "u", "d">>,
       raw_name |-> <<"B", "O", "u", "d">>, size |-> NullStr, type |-> NullStr,
       gender |-> "men", price |-> NullPrice]
P3 == [id |-> "3", brand |-> <<"A">>, name |-> <<"b", "u", "d">>,
       raw_name |-> <<"b", "u", "d">>, size |-> "", type |-> "",
       gender |-> "unisex", price |-> 0]
P4 == [id |-> "4", brand |-> <<>>, name |-> <<"a">>,
       raw_name |-> <<"a", "o", "u">>, size |-> "1 oz", type |-> "EDT",
       gender |-> "men", price |-> 1020]

Repositories == { <<P1, P2, P3, P4>>, <<P4, P2, P3>> }

\* products for the sort engine: two names that are canonically equivalent
\* but distinct strings, two equal names under different brands, brands that
\* differ only in case, prices null, 0, 9999 and above 9999
S1 == [id |-> "s1", brand |-> <<"A">>, name |-> <<"e", "acute">>,
       raw_name |-> <<"e", "acute">>, size |-> NullStr, type |-> NullStr,
       gender |-> "men", price |-> 10000]
S2 == [id |-> "s2", brand |-> <<"B">>, name |-> <<"e_acute">>,
       raw_name |-> <<"e_acute">>, size |-> NullStr, type |-> NullStr,
       gender |-> "men", price |-> NullPrice]
S3 == [id |-> "s3", brand |-> <<"B">>, name |-> <<"a">>,
       raw_name |-> <<"a">>, size |-> NullStr, type |-> NullStr,
       gender |-> "women", price |-> 0]
S4 == [id |-> "s4", brand |-> <<"A">>, name |-> <<"a">>,
       raw_name |-> <<"a">>, size |-> NullStr, type |-> NullStr,
       gender |-> "women", price |-> 0]
S5 == [id |-> "s5", brand |-> <<"a">>, name |-> <<"b">>,
       raw_name |-> <<"b">>, size |-> NullStr, type |-> NullStr,
       gender |-> "unisex", price |-> 9999]

SortPool == {S1, S2, S3, S4, S5}

\* longest repository handed to the sort engine
MaxListLen == 3

\* every repository of at most MaxListLen pool products, in every order
SortRepositories ==
    {r \in UNION {[1..n -> SortPool] : n \in 0..MaxListLen} :
        \A i, j \in 1..Len(r) : i # j => r[i].id # r[j].id}

SortPriceRangeArgs == { <<0, 1000>>, <<0, 20000>> }

----------------------------------------------------------------------------
(* DEFAULT_FILTERS *)

DEFAULT_FILTERS ==
    [gender |-> "all", search |-> <<>>, brand |-> NullText,
     priceRange |-> <<0, 1000>>, types |-> <<>>, sizes |-> <<>>,
     sort |-> "brand-asc"]

----------------------------------------------------------------------------
(* Fuse.js index and search, as configured by useProducts:                 *)
(* keys name, brand, raw_name; threshold 0.35; ignoreLocation; and the     *)
(* library default isCaseSensitive = false.  Only membership in the result *)
(* set is consumed by the pipeline, so key weights and scores are omitted. *)

\* Fuse threshold 0.35, in hundredths
FuseThreshold == 35

\* String.prototype.toLowerCase on one character of the alphabet in use
ToLowerChar(c) ==
    CASE c = "A" -> "a"
      [] c = "B" -> "b"
      [] c = "O" -> "o"
      [] OTHER -> c

ToLowerCase(t) == [i \in 1..Len(t) |-> ToLowerChar(t[i])]

\* One column of the approximate-matching table (Bitap with k errors
\* computes the same table bit-parallel): entry i+1 is the least number of
\* edits that turn pattern[1..i] into some substring of the text ending at
\* the current character.
RECURSIVE BitapColumn(_, _, _, _)
BitapColumn(pattern, prev, ch, acc) ==
    IF Len(acc) = Len(pattern) + 1 THEN acc
    ELSE LET i == Len(acc)
             cost == IF pattern[i] = ch THEN 0 ELSE 1
             v == Min3(prev[i] + cost, prev[i + 1] + 1, acc[i] + 1)
         IN BitapColumn(pattern, prev, ch, Append(acc, v))

RECURSIVE BitapScan(_, _, _, _)
BitapScan(pattern, text, col, best) ==
    IF text = <<>> THEN best
    ELSE LET c == BitapColumn(pattern, col, Head(text), <<0>>)
         IN BitapScan(pattern, Tail(text), c, Min2(best, c[Len(pattern) + 1]))

\* least number of errors with which the pattern occurs in the text
BitapErrors(pattern, text) ==
    BitapScan(pattern, text, [i \in 1..(Len(pattern) + 1) |-> i - 1], Len(pattern))

\* BitapSearch.searchIn(text).isMatch: with ignoreLocation the score of an
\* occurrence is errors / pattern.length, accepted when <= threshold
FuseIsMatch(pattern, text) ==
    /\ pattern # <<>>
    /\ text # <<>>
    /\ BitapErrors(ToLowerCase(pattern), ToLowerCase(text)) * 100
          <= FuseThreshold * Len(pattern)

\* a document is a result when at least one of its keys matches
FuseDocMatches(pattern, doc) ==
    \/ FuseIsMatch(pattern, doc.name)
    \/ FuseIsMatch(pattern, doc.brand)
    \/ FuseIsMatch(pattern, doc.raw_name)

\* new Fuse(allProducts, {...}): the index holds the documents
Fuse(docs) == docs

\* searchIndex.search(query): the matching documents (result order unused)
FuseSearch(index, query) ==
    SelectSeq(index, LAMBDA doc : FuseDocMatches(query, doc))

----------------------------------------------------------------------------
(* String.prototype.localeCompare for the alphabet in use.  The comparison *)
(* is the Unicode collation: canonically equivalent strings compare equal  *)
(* (the code point U+00E9, written "e_acute", and the pair "e" followed by *)
(* the combining accent U+0301, written "acute"); letters compare first by *)
(* their primary (case- and accent-insensitive) weight over the whole      *)
(* string, then by accents, then lower case before upper case.             *)

\* canonical decomposition of the text
RECURSIVE Decompose(_)
Decompose(t) ==
    IF t = <<>> THEN <<>>
    ELSE IF Head(t) = "e_acute" THEN <<"e", "acute">> \o Decompose(Tail(t))
    ELSE <<Head(t)>> \o Decompose(Tail(t))

PrimaryWeight(c) ==
    CASE ToLowerChar(c) = "a" -> 1
      [] ToLowerChar(c) = "b" -> 2
      [] ToLowerChar(c) = "d" -> 3
      [] ToLowerChar(c) = "e" -> 4
      [] ToLowerChar(c) = "o" -> 5
      [] ToLowerChar(c) = "r" -> 6
      [] ToLowerChar(c) = "s" -> 7
      [] ToLowerChar(c) = "u" -> 8
      [] OTHER -> 0

\* an accent has no primary weight and a secondary weight above the common one
SecondaryWeight(c) == IF c = "acute" THEN 2 ELSE 1

TertiaryWeight(c) == IF ToLowerChar(c) = c THEN 0 ELSE 1

RECURSIVE CompareWeights(_, _)
CompareWeights(a, b) ==
    IF a = <<>> /\ b = <<>> THEN 0
    ELSE IF a = <<>> THEN -1
    ELSE IF b = <<>> THEN 1
    ELSE IF Head(a) < Head(b) THEN -1
    ELSE IF Head(a) > Head(b) THEN 1
    ELSE CompareWeights(Tail(a), Tail(b))

\* the primary weights of a decomposed text, ignorable characters left out
PrimaryKey(t) ==
    LET w == [i \in 1..Len(t) |-> PrimaryWeight(t[i])]
    IN SelectSeq(w, LAMBDA x : x # 0)

localeCompare(a, b) ==
    LET da == Decompose(a)
        db == Decompose(b)
        primary == CompareWeights(PrimaryKey(da), PrimaryKey(db))
        secondary == CompareWeights([i \in 1..Len(da) |-> SecondaryWeight(da[i])],
                                    [i \in 1..Len(db) |-> SecondaryWeight(db[i])])
    IN IF primary # 0 THEN primary
       ELSE IF secondary # 0 THEN secondary
       ELSE CompareWeights([i \in 1..Len(da) |-> TertiaryWeight(da[i])],
                           [i \in 1..Len(db) |-> TertiaryWeight(db[i])])

----------------------------------------------------------------------------
(* sortProducts *)

\* a.price ?? d
PriceOr(p, d) == IF p.price = NullPrice THEN d ELSE p.price

\* variant: name-desc compares like name-asc
Comparator_nameDescLikeAsc(sort, a, b) ==
    CASE sort = "name-asc" -> localeCompare(a.name, b.name)
      [] sort = "name-desc" -> localeCompare(a.name, b.name)
      [] sort = "price-asc" -> PriceOr(a, 9999) - PriceOr(b, 9999)
      [] sort = "price-desc" -> PriceOr(b, 0) - PriceOr(a, 0)
      [] sort = "brand-asc" ->
            IF localeCompare(a.brand, b.brand) # 0
            THEN localeCompare(a.brand, b.brand)
            ELSE localeCompare(a.name, b.name)
      [] OTHER -> 0

\* variant: brand-asc has no tie-break on the name
Comparator_brandOnly(sort, a, b) ==
    CASE sort = "name-asc" -> localeCompare(a.name, b.name)
      [] sort = "name-desc" -> localeCompare(b.name, a.name)
      [] sort = "price-asc" -> PriceOr(a, 9999) - PriceOr(b, 9999)
      [] sort = "price-desc" -> PriceOr(b, 0) - PriceOr(a, 0)
      [] sort = "brand-asc" -> localeCompare(a.brand, b.brand)
      [] OTHER -> 0

\* the comparator handed to Array.prototype.sort for each sort option
Comparator(sort, a, b) ==
    CASE sort = "name-asc" -> localeCompare(a.name, b.name)
      [] sort = "name-desc" -> localeCompare(b.name, a.name)
      [] sort = "price-asc" -> PriceOr(a, 9999) - PriceOr(b, 9999)
      [] sort = "price-desc" -> PriceOr(b, 0) - PriceOr(a, 0)
      [] sort = "brand-asc" ->
            IF localeCompare(a.brand, b.brand) # 0
            THEN localeCompare(a.brand, b.brand)
            ELSE localeCompare(a.name, b.name)
      [] OTHER -> 0

\* Array.prototype.sort is stable: an element goes after the elements that
\* precede it in the input and do not compare greater
RECURSIVE StableInsert(_, _, _)
StableInsert(sort, x, sorted) ==
    IF sorted = <<>> THEN <<x>>
    ELSE IF Comparator(sort, Head(sorted), x) <= 0
         THEN <<Head(sorted)>> \o StableInsert(sort, x, Tail(sorted))
         ELSE <<x>> \o sorted

RECURSIVE StableSort(_, _, _)
StableSort(sort, input, sorted) ==
    IF input = <<>> THEN sorted
    ELSE StableSort(sort, Tail(input), StableInsert(sort, Head(input), sorted))

sortProducts(products, sort) == StableSort(sort, products, <<>>)

\* variant: no copy is made, `sorted` is the argument array itself
sortProductsArrays_noCopy(products, sort) ==
    [products |-> StableSort(sort, products, <<>>),
     sorted |-> StableSort(sort, products, <<>>)]

\* the two arrays when sortProducts returns: `sorted` is a copy of the
\* argument ([...products]) and Array.prototype.sort reorders its receiver,
\* `sorted`, in place
sortProductsArrays(products, sort) ==
    LET copied == [products |-> products, sorted |-> products]
    IN [copied EXCEPT !.sorted = StableSort(sort, @, <<>>)]

----------------------------------------------------------------------------
(* The filtering pipeline of the filteredProducts memo *)

\* variant: the comparison is inverted
GenderStep_inverted(results, f) ==
    IF f.gender # "all"
    THEN SelectSeq(results, LAMBDA p : p.gender # f.gender)
    ELSE results

\* 1. Gender filter
GenderStep(results, f) ==
    IF f.gender # "all"
    THEN SelectSeq(results, LAMBDA p : p.gender = f.gender)
    ELSE results

\* 2. Fuzzy search
SearchIds(index, query) == {r.id : r \in Range(FuseSearch(index, query))}

\* variant: the minimum query length is 3
SearchStep_minLength3(results, query, index) ==
    IF Len(query) >= 3
    THEN LET searchIds == SearchIds(index, query)
         IN SelectSeq(results, LAMBDA p : p.id \in searchIds)
    ELSE results

SearchStep(results, query, index) ==
    IF Len(query) >= 2
    THEN LET searchIds == SearchIds(index, query)
         IN SelectSeq(results, LAMBDA p : p.id \in searchIds)
    ELSE results

\* 3. Brand filter
BrandStep(results, f) ==
    IF TruthyText(f.brand)
    THEN SelectSeq(results, LAMBDA p : p.brand = f.brand)
    ELSE results

\* 4. Type filter
TypeStep(results, f) ==
    IF Len(f.types) > 0
    THEN SelectSeq(results, LAMBDA p : TruthyStr(p.type) /\ Includes(f.types, p.type))
    ELSE results

\* 5. Size filter
SizeStep(results, f) ==
    IF Len(f.sizes) > 0
    THEN SelectSeq(results, LAMBDA p : TruthyStr(p.size) /\ Includes(f.sizes, p.size))
    ELSE results

\* variant: the upper and lower bounds are exclusive
PriceStep_exclusive(results, f) ==
    SelectSeq(results, LAMBDA p :
        IF p.price = NullPrice THEN TRUE
        ELSE p.price > f.priceRange[1] /\ p.price < f.priceRange[2])

\* 6. Price range
PriceStep(results, f) ==
    SelectSeq(results, LAMBDA p :
        IF p.price = NullPrice THEN TRUE
        ELSE p.price >= f.priceRange[1] /\ p.price <= f.priceRange[2])

\* variant: the size step is left out
Pipeline_withoutSizeStep(products, f, query, index) ==
    LET r1 == GenderStep(products, f)
        r2 == SearchStep(r1, query, index)
        r3 == BrandStep(r2, f)
        r4 == TypeStep(r3, f)
        r6 == PriceStep(r4, f)
    IN sortProducts(r6, f.sort)

Pipeline(products, f, query, index) ==
    LET r1 == GenderStep(products, f)
        r2 == SearchStep(r1, query, index)
        r3 == BrandStep(r2, f)
        r4 == TypeStep(r3, f)
        r5 == SizeStep(r4, f)
        r6 == PriceStep(r5, f)
    IN sortProducts(r6, f.sort)

\* the activeFilterCount memo
ActiveFilterCount(f) ==
      (IF f.gender # "all" THEN 1 ELSE 0)
    + (IF Len(f.search) >= 2 THEN 1 ELSE 0)
    + (IF TruthyText(f.brand) THEN 1 ELSE 0)
    + (IF Len(f.types) > 0 THEN Len(f.types) ELSE 0)
    + (IF Len(f.sizes) > 0 THEN Len(f.sizes) ELSE 0)
    + (IF f.priceRange[1] > 0 \/ f.priceRange[2] < 1000 THEN 1 ELSE 0)

----------------------------------------------------------------------------
(* useDebounce(value, 200): the debounced value trails the value; a change *)
(* of the value cancels the pending timeout and schedules a new one that   *)
(* will commit the new value; teardown cancels the pending timeout.        *)

\* variant: a change of the value schedules nothing
useDebounceEffect_neverSchedules(pending, oldValue, newValue) == pending

\* variant: a change of the value schedules a timeout without cancelling the
\* pending one
useDebounceEffect_keepsPending(pending, oldValue, newValue) ==
    IF newValue # oldValue THEN pending \cup {newValue} ELSE pending

\* the effect of useDebounce, run after a render in which the value changed
useDebounceEffect(pending, oldValue, newValue) ==
    IF newValue # oldValue THEN {newValue} ELSE pending

\* variant: the cleanup leaves the pending timeout scheduled
useDebounceCleanup_keepsTimer(pending) == pending

\* the effect cleanup run at unmount
useDebounceCleanup(pending) == {}

----------------------------------------------------------------------------
(* One render of useProducts after a state or prop change: the memos whose *)
(* dependencies changed are recomputed, then the effects run.              *)

\* variant: filters.sort is missing from the dependency list
PipelineDeps_withoutSort(products, f, query, index) ==
    <<products, f.gender, query, f.brand, f.types, f.sizes, f.priceRange, index>>

\* variant: allProducts and searchIndex are missing from the dependency list
PipelineDeps_withoutRepository(products, f, query, index) ==
    <<f.gender, query, f.brand, f.types, f.sizes, f.priceRange, f.sort>>

\* dependency list of the filteredProducts memo
PipelineDeps(products, f, query, index) ==
    <<products, f.gender, query, f.brand, f.types, f.sizes, f.priceRange,
      f.sort, index>>

\* variant: the filter state is part of the dependency list
SearchIndexDeps_withFilters(products, f) == <<products, f>>

\* dependency list of the searchIndex memo
SearchIndexDeps(products, f) == <<products>>

Render(products, f, query, pending, cleared) ==
    LET rebuild == SearchIndexDeps(products, f) # SearchIndexDeps(allProducts, filters)
        index == IF rebuild THEN Fuse(products) ELSE searchIndex
    IN /\ allProducts' = products
       /\ indexRebuilt' = rebuild
       /\ filters' = f
       /\ debouncedSearch' = query
       /\ searchIndex' = index
       /\ filteredProducts' =
             IF PipelineDeps(products, f, query, index)
                  # PipelineDeps(allProducts, filters, debouncedSearch, searchIndex)
             THEN Pipeline(products, f, query, index)
             ELSE filteredProducts
       /\ activeFilterCount' =
             IF f # filters THEN ActiveFilterCount(f) ELSE activeFilterCount
       /\ timers' = useDebounceEffect(pending, filters.search, f.search)
       /\ mounted' = mounted
       /\ justCleared' = cleared
       /\ grid' = grid

\* setFilters(next) followed by the render it causes
setFilters(next, cleared) ==
    /\ mounted
    /\ Render(allProducts, next, debouncedSearch, timers, cleared)

----------------------------------------------------------------------------
(* The mutation operations returned by useProducts *)

setGender(gender) ==
    setFilters([filters EXCEPT !.gender = gender], FALSE)

\* variant: builds the next state from the defaults instead of prev
setSearch_fromDefaults(search) ==
    setFilters([DEFAULT_FILTERS EXCEPT !.search = search], FALSE)

setSearch(search) ==
    setFilters([filters EXCEPT !.search = search], FALSE)

setBrand(brand) ==
    setFilters([filters EXCEPT !.brand = brand], FALSE)

\* variant: a range given upside down is put in order
setPriceRange_ordered(priceRange) ==
    setFilters([filters EXCEPT !.priceRange =
                   IF priceRange[1] > priceRange[2]
                   THEN <<priceRange[2], priceRange[1]>>
                   ELSE priceRange], FALSE)

setPriceRange(priceRange) ==
    setFilters([filters EXCEPT !.priceRange = priceRange], FALSE)

\* variant: appends without looking for the value
toggledTypes_alwaysAppends(types, type) == Append(types, type)

\* prev.types.includes(type) ? prev.types.filter(t => t !== type)
\*                           : [...prev.types, type]
toggledTypes(types, type) ==
    IF Includes(types, type) THEN Without(types, type) ELSE Append(types, type)

toggleType(type) ==
    setFilters([filters EXCEPT !.types = toggledTypes(@, type)], FALSE)

\* variant: appends without looking for the value
toggledSizes_alwaysAppends(sizes, size) == Append(sizes, size)

toggledSizes(sizes, size) ==
    IF Includes(sizes, size) THEN Without(sizes, size) ELSE Append(sizes, size)

toggleSize(size) ==
    setFilters([filters EXCEPT !.sizes = toggledSizes(@, size)], FALSE)

setSort(sort) ==
    setFilters([filters EXCEPT !.sort = sort], FALSE)

\* variant: the reset keeps the chosen sort
clearFilters_keepsSort ==
    setFilters([DEFAULT_FILTERS EXCEPT !.sort = filters.sort], TRUE)

\* variant: the reset keeps the chosen gender
clearFilters_keepsGender ==
    setFilters([DEFAULT_FILTERS EXCEPT !.gender = filters.gender], TRUE)

clearFilters ==
    setFilters(DEFAULT_FILTERS, TRUE)

----------------------------------------------------------------------------
(* Events that are not calls of the returned operations *)

\* the pending timeout of useDebounce fires: setDebouncedValue(value); a
\* timeout fires whether or not the session is alive, unless it was cancelled
DebounceFire ==
    /\ \E value \in timers :
          Render(allProducts, filters, value, timers \ {value}, FALSE)

\* the step in which the pending timeout of a live session fires: the steps
\* of DebounceFire and no other, written on the timers alone
TimeoutFires == timers # {} /\ timers' = {} /\ mounted' = TRUE

\* the parent renders the catalog with another products array
SetProducts(products) ==
    /\ mounted
    /\ products # allProducts
    /\ Render(products, filters, debouncedSearch, timers, FALSE)

\* the catalog session is torn down
Unmount ==
    /\ mounted
    /\ mounted' = FALSE
    /\ timers' = useDebounceCleanup(timers)
    /\ justCleared' = FALSE
    /\ indexRebuilt' = FALSE
    /\ UNCHANGED <<allProducts, filters, debouncedSearch, searchIndex,
                   filteredProducts, activeFilterCount, grid>>

----------------------------------------------------------------------------
(* Specification *)

\* the first render of useProducts over one of the given repositories
InitHook(repositories) ==
    /\ allProducts \in repositories
    /\ filters = DEFAULT_FILTERS
    /\ debouncedSearch = DEFAULT_FILTERS.search
    /\ timers = {}
    /\ searchIndex = Fuse(allProducts)
    /\ filteredProducts =
          Pipeline(allProducts, DEFAULT_FILTERS, DEFAULT_FILTERS.search,
                   Fuse(allProducts))
    /\ activeFilterCount = ActiveFilterCount(DEFAULT_FILTERS)
    /\ mounted = TRUE
    /\ justCleared = FALSE
    /\ indexRebuilt = TRUE

\* ProductGrid is left out of the specifications of the hook
NoGrid == [length |-> 0, visibleCount |-> 0, observed |-> FALSE]

InitFrom(repositories) == InitHook(repositories) /\ grid = NoGrid

Init == InitFrom(Repositories)

\* the catalog session, driven through its controls
Next ==
    \/ \E gender \in Genders : setGender(gender)
    \/ \E search \in SearchTexts : setSearch(search)
    \/ \E brand \in BrandChoices : setBrand(brand)
    \/ \E priceRange \in PriceRangeChoices : setPriceRange(priceRange)
    \/ \E type \in FRAG_TYPES : toggleType(type)
    \/ \E size \in COMMON_SIZES : toggleSize(size)
    \/ \E sort \in SortOptions : setSort(sort)
    \/ clearFilters
    \/ DebounceFire
    \/ \E products \in Repositories : SetProducts(products)
    \/ Unmount

Spec == Init /\ [][Next]_vars

----------------------------------------------------------------------------
(* The collaborators that set the price range *)

\* max of the slider: Math.ceil(Math.max(...prices) / 50) * 50
SliderMax(products) ==
    LET prices == {products[i].price : i \in 1..Len(products)} \ {NullPrice}
        top == CHOOSE p \in prices : \A q \in prices : q <= p
    IN ((top + 49) \div 50) * 50

\* thumb positions tried, among the integers the range inputs can report
SliderPositions == {0, 5, 10, 20, 40, 50, 500, 990, 1000, 1050}

\* local state of PriceRangeSlider: initialised from value and set to it by
\* the effect after every render in which value changed
localMin == filters.priceRange[1]
localMax == filters.priceRange[2]

\* variant: the min thumb is not held below the max thumb
handleMinChange_unclamped(value) ==
    setPriceRange(<<value, localMax>>)

handleMinChange(value) ==
    setPriceRange(<<Min2(value, localMax - 10), localMax>>)

handleMaxChange(value) ==
    setPriceRange(<<localMin, Max2(value, localMin + 10)>>)

\* the price pill of ActiveFilters, shown when the range is not the default
onResetPrice ==
    /\ filters.priceRange[1] > 0 \/ filters.priceRange[2] < 1000
    /\ setPriceRange(<<0, 1000>>)

\* the price range driven by its collaborators; clearFilters at any time, a
\* superset of the states in which "Clear all" is offered
NextPrice ==
    \/ \E value \in SliderPositions :
          value <= SliderMax(allProducts) /\ handleMinChange(value)
    \/ \E value \in SliderPositions :
          value <= SliderMax(allProducts) /\ handleMaxChange(value)
    \/ onResetPrice
    \/ clearFilters

SpecPrice == Init /\ [][NextPrice]_vars

----------------------------------------------------------------------------
(* ProductGrid: progressive loading of the list it is given.  The list is   *)
(* represented by its length: the grid reads products.length and slices.   *)

BATCH_SIZE == 40

\* largest list given to the grid
MaxGridLength == 130

ListLengths == 0..MaxGridLength

\* {visibleCount < products.length && <div ref={loadMoreRef} ...>}
SentinelRendered(visibleCount, length) == visibleCount < length

\* the first render and its effects: the reset effect sets BATCH_SIZE again,
\* the observer effect observes the sentinel if one was rendered
MountGrid(length) ==
    [length |-> length, visibleCount |-> BATCH_SIZE,
     observed |-> SentinelRendered(BATCH_SIZE, length)]

\* the observer reports the sentinel intersecting: setVisibleCount(prev =>
\* Math.min(prev + BATCH_SIZE, products.length)) and the render it causes, in
\* which the sentinel stays the same element or is removed; no effect runs
Intersect ==
    /\ grid.observed
    /\ LET count == Min2(grid.visibleCount + BATCH_SIZE, grid.length)
       IN grid' = [grid EXCEPT !.visibleCount = count,
                               !.observed = SentinelRendered(count, grid.length)]
    /\ UNCHANGED hookVars

\* the parent passes another products array, of any length
ReplaceProducts(length) ==
    /\ grid # NoGrid
    /\ LET \* render with the new list and the visibleCount of before: the
           \* sentinel is the element of the render before only if both
           \* renders have one
           rendered == SentinelRendered(grid.visibleCount, length)
           kept == rendered /\ SentinelRendered(grid.visibleCount, grid.length)
           \* observer effect, dependencies [products.length]: when it runs
           \* it disconnects and observes loadMoreRef.current, if any
           observedAfterEffects ==
               IF length # grid.length THEN rendered ELSE grid.observed /\ kept
           \* reset effect, dependencies [products]: setVisibleCount(BATCH_SIZE)
           \* and the render it causes, after which no effect runs: a sentinel
           \* rendered only now is observed by nobody
           observedAfterReset ==
               observedAfterEffects /\ SentinelRendered(BATCH_SIZE, length)
       IN grid' = [length |-> length, visibleCount |-> BATCH_SIZE,
                   observed |-> observedAfterReset]
    /\ UNCHANGED hookVars

InitGrid ==
    /\ InitHook(Repositories)
    /\ \E length \in ListLengths : grid = MountGrid(length)

NextGrid ==
    \/ Intersect
    \/ \E length \in ListLengths : ReplaceProducts(length)

SpecGrid == InitGrid /\ [][NextGrid]_vars

\* the catalog session in real time: a timeout that stays pending is fired by
\* the event loop once its 200 ms have elapsed
NextLive ==
    \/ \E search \in SearchTexts : setSearch(search)
    \/ \E gender \in Genders : setGender(gender)
    \/ clearFilters
    \/ DebounceFire
    \/ \E products \in Repositories : SetProducts(products)
    \/ Unmount

SpecLive ==
    Init /\ [][NextLive]_vars /\ WF_<<timers, mounted>>(TimeoutFires)

\* the filter state store under any sequence of calls of its operations,
\* with any argument their signatures accept
NextStore ==
    \/ \E gender \in Genders : setGender(gender)
    \/ \E search \in SearchTexts : setSearch(search)
    \/ \E brand \in BrandArgs : setBrand(brand)
    \/ \E priceRange \in PriceRangeArgs : setPriceRange(priceRange)
    \/ \E type \in TypeArgs : toggleType(type)
    \/ \E size \in SizeArgs : toggleSize(size)
    \/ \E sort \in SortOptions : setSort(sort)
    \/ clearFilters

SpecStore == Init /\ [][NextStore]_vars

\* the sort engine: any repository of pool products in any order, any sort
\* option, with and without the default price ceiling
InitSort == InitFrom(SortRepositories)

NextSort ==
    \/ \E sort \in SortOptions : setSort(sort)
    \/ \E priceRange \in SortPriceRangeArgs : setPriceRange(priceRange)

SpecSort == InitSort /\ [][NextSort]_vars

----------------------------------------------------------------------------
(* Properties of the filter state store *)

FilterFields == {"gender", "search", "brand", "priceRange", "types", "sizes", "sort"}

\* every FilterState field but the named one keeps its value in this step
OnlyChanges(field) ==
    \A k \in FilterFields \ {field} : filters'[k] = filters[k]

\* C1: each of setGender, setSearch, setBrand, setPriceRange, setSort,
\* toggleType and toggleSize changes only the FilterState field it is named
\* for and leaves every other field as it was before the call.
C1_SettersChangeOnlyTheirField ==
    [][ /\ (\E gender \in Genders : setGender(gender)) => OnlyChanges("gender")
        /\ (\E search \in SearchTexts : setSearch(search)) => OnlyChanges("search")
        /\ (\E brand \in BrandArgs : setBrand(brand)) => OnlyChanges("brand")
        /\ (\E priceRange \in PriceRangeArgs : setPriceRange(priceRange))
              => OnlyChanges("priceRange")
        /\ (\E sort \in SortOptions : setSort(sort)) => OnlyChanges("sort")
        /\ (\E type \in TypeArgs : toggleType(type)) => OnlyChanges("types")
        /\ (\E size \in SizeArgs : toggleSize(size)) => OnlyChanges("sizes")
      ]_vars

\* every field holds a non-default value: each setter has been called while
\* the other fields already held or later received their values
C1_Witness_AllFieldsSet ==
    /\ filters.gender # "all"
    /\ filters.search # <<>>
    /\ filters.brand # NullText
    /\ filters.priceRange # <<0, 1000>>
    /\ filters.types # <<>>
    /\ filters.sizes # <<>>
    /\ filters.sort # "brand-asc"

\* C2: after clearFilters(), whatever the state it was called in, FilterState
\* is exactly the documented default: gender all, search empty, brand null,
\* priceRange [0, 1000], types empty, sizes empty, sort brand-asc.
C2_ClearYieldsDefault ==
    justCleared =>
        filters = [gender |-> "all", search |-> <<>>, brand |-> NullText,
                   priceRange |-> <<0, 1000>>, types |-> <<>>, sizes |-> <<>>,
                   sort |-> "brand-asc"]

\* clearFilters has just run in a session whose search text had been edited
\* (the debounce timeout it rescheduled is still pending)
C2_Witness_ClearedAfterEdits ==
    justCleared /\ timers # {}

\* C3: filters.types and filters.sizes never contain a value twice, and a
\* toggle removes the value when it is present and appends it when absent.
C3_TogglesKeepNoDuplicates ==
    /\ [](NoDuplicates(filters.types) /\ NoDuplicates(filters.sizes))
    /\ [][ /\ \A type \in TypeArgs : toggleType(type) =>
                 IF Includes(filters.types, type)
                 THEN /\ ~Includes(filters'.types, type)
                      /\ Range(filters'.types) = Range(filters.types) \ {type}
                 ELSE filters'.types = Append(filters.types, type)
           /\ \A size \in SizeArgs : toggleSize(size) =>
                 IF Includes(filters.sizes, size)
                 THEN /\ ~Includes(filters'.sizes, size)
                      /\ Range(filters'.sizes) = Range(filters.sizes) \ {size}
                 ELSE filters'.sizes = Append(filters.sizes, size)
         ]_vars

\* both lists hold two values: values were appended next to present ones
C3_Witness_TwoSelected ==
    Len(filters.types) = 2 /\ Len(filters.sizes) = 2

\* C4: toggling the same type twice in a row gives back filters.types as a
\* set, and toggling the same size twice gives back filters.sizes as a set.
C4_ToggleTwiceIsIdentityOnSets ==
    /\ \A type \in TypeArgs :
          Range(toggledTypes(toggledTypes(filters.types, type), type))
             = Range(filters.types)
    /\ \A size \in SizeArgs :
          Range(toggledSizes(toggledSizes(filters.sizes, size), size))
             = Range(filters.sizes)

\* a selected value that is not last: toggling it twice moves it to the end,
\* so the list differs while the set is the same
C4_Witness_ReorderedByDoubleToggle ==
    /\ \E type \in TypeArgs :
          /\ Includes(filters.types, type)
          /\ toggledTypes(toggledTypes(filters.types, type), type) # filters.types
    /\ \E size \in SizeArgs :
          /\ Includes(filters.sizes, size)
          /\ toggledSizes(toggledSizes(filters.sizes, size), size) # filters.sizes

----------------------------------------------------------------------------
(* Properties of the filtering pipeline *)

\* the products of the repository, and those a step keeps of the repository
Products == Range(allProducts)
Shown == Range(filteredProducts)

\* the pipeline with one step left out
PipelineWithoutGender(products, f, query, index) ==
    sortProducts(
        PriceStep(SizeStep(TypeStep(BrandStep(
            SearchStep(products, query, index), f), f), f), f),
        f.sort)

PipelineWithoutSearch(products, f) ==
    sortProducts(
        PriceStep(SizeStep(TypeStep(BrandStep(
            GenderStep(products, f), f), f), f), f),
        f.sort)

\* the fuzzy match set of a text over the repository
FuzzyMatchSet(text) == {p.id : p \in {q \in Products : FuseDocMatches(text, q)}}

PipelineWithoutPrice ==
    SizeStep(TypeStep(BrandStep(
        SearchStep(GenderStep(allProducts, filters), debouncedSearch, searchIndex),
        filters), filters), filters)

\* C5: with gender g other than all, every product in filteredProducts has
\* gender g; with gender all the gender predicate removes nothing, the result
\* being the repository narrowed by the other filters only.
C5_GenderFilter ==
    /\ filters.gender # "all" =>
          \A p \in Shown : p.gender = filters.gender
    /\ filters.gender = "all" =>
          /\ GenderStep(allProducts, filters) = allProducts
          /\ filteredProducts =
                PipelineWithoutGender(allProducts, filters, debouncedSearch,
                                      searchIndex)

\* a gender is selected, products of it are shown and products of another
\* gender, which pass every other filter, are not
C5_Witness_GenderNarrows ==
    /\ filters.gender \in {"men", "women", "unisex"}
    /\ filteredProducts # <<>>
    /\ Len(filteredProducts)
          < Len(PipelineWithoutGender(allProducts, filters, debouncedSearch,
                                      searchIndex))

\* C6 as stated: if the current search text filters.search has length >= 2,
\* every product in filteredProducts is in the fuzzy match set of that text;
\* if it has length < 2 the search step excludes no product.
C6_Original_CurrentTextGoverns ==
    /\ Len(filters.search) >= 2 =>
          \A p \in Shown : p.id \in FuzzyMatchSet(filters.search)
    /\ Len(filters.search) < 2 =>
          filteredProducts = PipelineWithoutSearch(allProducts, filters)

\* C6 amended: the same with the debounced search text in place of the
\* current one.
C6_DebouncedTextGoverns ==
    /\ Len(debouncedSearch) >= 2 =>
          \A p \in Shown : p.id \in FuzzyMatchSet(debouncedSearch)
    /\ Len(debouncedSearch) < 2 =>
          filteredProducts = PipelineWithoutSearch(allProducts, filters)

\* a debounced text of length >= 2 is applied: some products are shown and
\* some, which pass every other filter, are left out by the search
C6_Witness_SearchNarrows ==
    /\ Len(debouncedSearch) >= 2
    /\ filteredProducts # <<>>
    /\ Len(filteredProducts) < Len(PipelineWithoutSearch(allProducts, filters))

\* C7 as stated: for every brand value setBrand accepts, the empty string
\* included, the brand step keeps a product iff filters.brand is null or
\* equals the product's brand.
C7_Original_BrandStep ==
    \A p \in Products :
        (p \in Range(BrandStep(allProducts, filters)))
            <=> (filters.brand = NullText \/ p.brand = filters.brand)

\* C8 as stated: the type step keeps a product iff no type is selected or the
\* product's type is not null and is selected; the size step likewise; also
\* for a product whose type or size is the empty string.
C8_Original_TypeAndSizeSteps ==
    \A p \in Products :
        /\ (p \in Range(TypeStep(allProducts, filters)))
              <=> (filters.types = <<>>
                     \/ (p.type # NullStr /\ p.type \in Range(filters.types)))
        /\ (p \in Range(SizeStep(allProducts, filters)))
              <=> (filters.sizes = <<>>
                     \/ (p.size # NullStr /\ p.size \in Range(filters.sizes)))

\* C9: the price step keeps a product iff its price is null or lies in
\* [lo, hi], both bounds included; a product without a price is never removed
\* by the price step, and no product shown violates the range.
C9_PriceStep ==
    LET lo == filters.priceRange[1]
        hi == filters.priceRange[2]
    IN /\ \A p \in Products :
             (p \in Range(PriceStep(allProducts, filters)))
                 <=> (p.price = NullPrice \/ (lo <= p.price /\ p.price <= hi))
       /\ \A p \in Shown :
             p.price = NullPrice \/ (lo <= p.price /\ p.price <= hi)
       /\ \A p \in Products :
             (p.price = NullPrice /\ p \in Range(PipelineWithoutPrice))
                 => p \in Shown

\* a range that leaves out a priced product, keeps a product priced exactly
\* at a bound, and shows a product without a price
C9_Witness_RangeNarrows ==
    /\ \E p \in Products \ Shown : p.price # NullPrice /\ p.price > filters.priceRange[2]
    /\ \E p \in Shown : p.price = filters.priceRange[1]
    /\ \E p \in Shown : p.price = NullPrice

\* C10 as stated: activeFilterCount = (1 if gender # all) + (1 if the search
\* text has length >= 2) + (1 if brand # null) + |types| + |sizes|
\* + (1 if priceRange differs from [0, 1000]).
C10_Original_ActiveFilterCount ==
    activeFilterCount =
          (IF filters.gender # "all" THEN 1 ELSE 0)
        + (IF Len(filters.search) >= 2 THEN 1 ELSE 0)
        + (IF filters.brand # NullText THEN 1 ELSE 0)
        + Len(filters.types)
        + Len(filters.sizes)
        + (IF filters.priceRange # <<0, 1000>> THEN 1 ELSE 0)


----------------------------------------------------------------------------
(* Properties of the debounce gate and the memos *)

\* the search dimension contributes to activeFilterCount
SearchCounted ==
    activeFilterCount > ActiveFilterCount([filters EXCEPT !.search = <<>>])

\* the fuzzy-search predicate is applied to filteredProducts
SearchApplied == Len(debouncedSearch) >= 2

\* C11 as stated: in every reachable state the search dimension is counted in
\* activeFilterCount exactly when the fuzzy-search predicate is applied to
\* filteredProducts, also between a setSearch call and the moment the
\* debounced value catches up.
C11_Original_CountedIffApplied ==
    SearchCounted <=> SearchApplied


----------------------------------------------------------------------------
(* Properties of the sort engine *)

RECURSIVE Reverse(_)
Reverse(s) == IF s = <<>> THEN <<>> ELSE Append(Reverse(Tail(s)), Head(s))

\* no two products of the list have the same name (as strings)
DistinctNames(list) ==
    \A i, j \in 1..Len(list) : i # j => list[i].name # list[j].name

\* no two products of the list have names that localeCompare reports equal
NamesCompareUnequal(list) ==
    \A i, j \in 1..Len(list) :
        i # j => localeCompare(list[i].name, list[j].name) # 0

\* name-desc gives the reverse of name-asc, on the repository and on the list
\* shown
NameDescReversesNameAsc ==
    /\ sortProducts(allProducts, "name-desc")
          = Reverse(sortProducts(allProducts, "name-asc"))
    /\ filters.sort = "name-desc" =>
          filteredProducts =
             Reverse(Pipeline(allProducts, [filters EXCEPT !.sort = "name-asc"],
                              debouncedSearch, searchIndex))

PositionIn(list, p) == CHOOSE i \in 1..Len(list) : list[i].id = p.id

\* every product without a price comes after every product with one
NullPricesLast(list) ==
    \A i, j \in 1..Len(list) :
        (list[i].price = NullPrice /\ list[j].price # NullPrice) => j < i

\* C13 as stated: for every list whose prices are null or any non-negative
\* number, sortProducts(list, price-asc) places every null-price product
\* strictly after every product with a price, and the priced products are in
\* ascending price order.
C13_Original_PriceAscNullsLast ==
    LET sorted == sortProducts(allProducts, "price-asc")
    IN /\ NullPricesLast(sorted)
       /\ \A i, j \in 1..Len(sorted) :
             (i < j /\ sorted[i].price # NullPrice /\ sorted[j].price # NullPrice)
                => sorted[i].price <= sorted[j].price

\* C14 as stated: for every list whose prices are null or any non-negative
\* number, 0 included, and every input order, sortProducts(list, price-desc)
\* places every null-price product strictly after every product with a price,
\* and the priced products are in descending price order.
C14_Original_PriceDescNullsLast ==
    LET sorted == sortProducts(allProducts, "price-desc")
    IN /\ NullPricesLast(sorted)
       /\ \A i, j \in 1..Len(sorted) :
             (i < j /\ sorted[i].price # NullPrice /\ sorted[j].price # NullPrice)
                => sorted[i].price >= sorted[j].price

\* the key of a product under a sort option other than brand-asc
SameSortKey(sort, a, b) ==
    IF sort \in {"name-asc", "name-desc"}
    THEN localeCompare(a.name, b.name) = 0
    ELSE a.price = b.price

\* C15: under brand-asc, for adjacent products p before q in
\* filteredProducts, p.brand <= q.brand, and p.name <= q.name when the brands
\* are equal; no other sort option uses a secondary key: under it, products
\* with the same key stay in the order of the repository whatever their
\* other fields.
C15_BrandAscWithNameTieBreak ==
    /\ filters.sort = "brand-asc" =>
          \A i \in 1..(Len(filteredProducts) - 1) :
             LET p == filteredProducts[i]
                 q == filteredProducts[i + 1]
             IN /\ localeCompare(p.brand, q.brand) <= 0
                /\ localeCompare(p.brand, q.brand) = 0
                      => localeCompare(p.name, q.name) <= 0
    /\ filters.sort # "brand-asc" =>
          \A i, j \in 1..Len(filteredProducts) :
             LET p == filteredProducts[i]
                 q == filteredProducts[j]
             IN (i < j /\ SameSortKey(filters.sort, p, q))
                   => PositionIn(allProducts, p) < PositionIn(allProducts, q)

\* brand-asc shows two products of one brand, the one that is later in the
\* repository first because of its name
C15_Witness_TieBrokenByName ==
    /\ filters.sort = "brand-asc"
    /\ \E i \in 1..(Len(filteredProducts) - 1) :
          LET p == filteredProducts[i]
              q == filteredProducts[i + 1]
          IN /\ p.brand = q.brand
             /\ localeCompare(p.name, q.name) < 0
             /\ PositionIn(allProducts, q) < PositionIn(allProducts, p)


----------------------------------------------------------------------------
(* Properties of the debounce gate *)

\* a step that changes the search text and no other field of the store
SearchOnlyStep ==
    /\ filters'.search # filters.search
    /\ filters' = [filters EXCEPT !.search = filters'.search]

\* C16 as stated: after setSearch calls in quick succession the debounced
\* value changes exactly once, to the last text: the timeout that ends the
\* burst changes the debounced value, and changes it to the current text.
C16_Original_BurstCommitsExactlyOnce ==
    [][TimeoutFires => /\ debouncedSearch' # debouncedSearch
                       /\ debouncedSearch' = filters.search]_vars

\* C16: each setSearch call that changes the text restarts the window (the
\* one pending timeout is for the last text), leaves the debounced value and
\* filteredProducts alone; the debounced value changes only when the pending
\* timeout fires, to the last text, so at most once per burst and exactly
\* once when the last text differs from the value committed before.
C16_BurstCommitsLastTextOnly ==
    /\ [](Cardinality(timers) <= 1 /\ timers \subseteq {filters.search})
    /\ [][/\ SearchOnlyStep =>
                /\ timers' = {filters'.search}
                /\ UNCHANGED <<debouncedSearch, filteredProducts>>
          /\ debouncedSearch' # debouncedSearch =>
                /\ TimeoutFires
                /\ debouncedSearch' = filters.search
          /\ (TimeoutFires /\ filters.search # debouncedSearch) =>
                /\ debouncedSearch' = filters.search
                /\ filteredProducts' =
                      Pipeline(allProducts, filters, filters.search, searchIndex)
         ]_vars

\* "ou" was committed and narrows the list; the text is now "oud" and its
\* timeout is pending
C16_Witness_PendingLastText ==
    /\ timers = {<<"o", "u", "d">>}
    /\ debouncedSearch = <<"o", "u">>
    /\ Len(filteredProducts) < Len(allProducts)


\* a step that changes the store and leaves the search text alone
NonSearchStep ==
    /\ filters' # filters
    /\ filters'.search = filters.search

\* C17: after setGender, setBrand, setPriceRange, toggleType, toggleSize or
\* setSort, filteredProducts is the pipeline output for the new filter values
\* in the very next state, a search timeout pending or not, and the pending
\* timeout is left as it was; a change of the search text alone leaves
\* filteredProducts as it was.
C17_NonSearchMutationsApplyAtOnce ==
    [][/\ NonSearchStep =>
             /\ filteredProducts' =
                   Pipeline(allProducts, filters', debouncedSearch, searchIndex)
             /\ UNCHANGED <<debouncedSearch, timers>>
       /\ SearchOnlyStep => filteredProducts' = filteredProducts
      ]_vars

\* a gender choice narrows the list while the timeout for "ou" is pending
C17_Witness_AppliedWhilePending ==
    /\ timers = {<<"o", "u">>}
    /\ debouncedSearch = <<>>
    /\ filters.gender = "men"
    /\ filters.priceRange = <<0, 1020>>
    /\ filteredProducts = Pipeline(allProducts, filters, <<>>, searchIndex)
    /\ filteredProducts #
          Pipeline(allProducts, [filters EXCEPT !.gender = "all"], <<>>, searchIndex)
    /\ filteredProducts #
          Pipeline(allProducts, [filters EXCEPT !.priceRange = <<0, 1000>>], <<>>,
                   searchIndex)

\* C18 as stated: in the state right after clearFilters(), filteredProducts
\* is the pipeline output for the default FilterState with no search
\* narrowing.
C18_Original_ClearRemovesSearchNarrowing ==
    justCleared =>
        filteredProducts =
            Pipeline(allProducts, DEFAULT_FILTERS, DEFAULT_FILTERS.search, searchIndex)

\* C18: in the state right after clearFilters(), filteredProducts is the
\* pipeline output for the default gender, brand, types, sizes, priceRange
\* and sort and for the text that is still the debounced one; when that text
\* has length >= 2 the timeout that will commit the empty text is pending.
C18_ClearKeepsDebouncedNarrowing ==
    justCleared =>
        /\ filteredProducts =
              Pipeline(allProducts, DEFAULT_FILTERS, debouncedSearch, searchIndex)
        /\ Len(debouncedSearch) >= 2 => timers = {DEFAULT_FILTERS.search}

\* right after clearFilters() the list is still narrowed by the committed text
C18_Witness_ClearedStillNarrowed ==
    /\ justCleared
    /\ Len(debouncedSearch) >= 2
    /\ Len(filteredProducts) < Len(allProducts)

\* C19: teardown cancels the pending timeout: after teardown no timeout is
\* pending, and no step changes the debounced value, filteredProducts or the
\* timers.
C19_TeardownCancelsTimer ==
    /\ [](~mounted => timers = {})
    /\ [][~mounted => UNCHANGED <<debouncedSearch, filteredProducts, timers>>]_vars

\* torn down while the text "oud" was waiting to be committed
C19_Witness_TornDownWhilePending ==
    /\ ~mounted
    /\ filters.search = <<"o", "u", "d">>
    /\ debouncedSearch # filters.search

\* C20: the memoized filteredProducts equals the pipeline recomputed from
\* scratch on the current repository, the current gender, brand, types,
\* sizes, priceRange and sort, and the current debounced search text.
C20_MemoEqualsRecomputation ==
    filteredProducts =
        Pipeline(allProducts, filters, debouncedSearch, Fuse(allProducts))

\* the repository was replaced while a committed search, a gender and a sort
\* were in force
C20_Witness_ReplacedUnderFilters ==
    /\ allProducts = <<P4, P2, P3>>
    /\ debouncedSearch = <<"o", "u">>
    /\ filters.gender = "men"
    /\ filters.sort = "price-desc"
    /\ timers = {<<"o", "u", "d">>}
    /\ Len(filteredProducts) >= 1
    /\ Len(filteredProducts) < Len(allProducts)


----------------------------------------------------------------------------
(* Frame properties of the core *)

\* a step of the store, of the debounce gate or of the session's lifecycle
CoreStep ==
    \/ filters' # filters
    \/ debouncedSearch' # debouncedSearch
    \/ timers' # timers
    \/ mounted' # mounted

\* C21: no operation of the core changes the repository: sortProducts
\* leaves its argument array as it was under every sort option, for the
\* repository and for the list shown, and returns the sorted copy; every
\* setter call, timer firing and teardown leaves allProducts as it was.
C21_RepositoryNeverMutated ==
    /\ [](\A sort \in SortOptions :
             /\ sortProductsArrays(allProducts, sort).products = allProducts
             /\ sortProductsArrays(allProducts, sort).sorted
                   = sortProducts(allProducts, sort)
             /\ sortProductsArrays(filteredProducts, sort).products
                   = filteredProducts)
    /\ [][CoreStep => allProducts' = allProducts]_vars

\* the list shown is in another order than the repository, which still has
\* its four products in the order supplied
C21_Witness_SortedCopyDiffers ==
    /\ allProducts = <<P1, P2, P3, P4>>
    /\ filters.sort = "price-desc"
    /\ filters.priceRange = <<0, 1020>>
    /\ debouncedSearch = <<"o", "u">>
    /\ Len(filteredProducts) >= 2
    /\ \E i, j \in 1..Len(filteredProducts) :
          /\ i < j
          /\ PositionIn(allProducts, filteredProducts[i])
                > PositionIn(allProducts, filteredProducts[j])


----------------------------------------------------------------------------
(* Unvalidated input *)

\* C22: setPriceRange([lo, hi]) with lo > hi is not rejected, clamped or
\* swapped: priceRange becomes exactly [lo, hi], no other field changes and
\* the session goes on; while the range is upside down filteredProducts
\* is exactly the null-price products that pass the other predicates, sorted.
C22_InvertedRangeNotValidated ==
    /\ [][\A priceRange \in PriceRangeArgs :
             (priceRange[1] > priceRange[2] /\ setPriceRange(priceRange)) =>
                /\ filters'.priceRange = priceRange
                /\ OnlyChanges("priceRange")
                /\ mounted'
         ]_vars
    /\ [](filters.priceRange[1] > filters.priceRange[2] =>
             filteredProducts =
                sortProducts(
                   SelectSeq(PipelineWithoutPrice, LAMBDA p : p.price = NullPrice),
                   filters.sort))

\* the range is [50, 40]: the null-price product is shown and the product
\* priced 50, which passes the other filters, is not
C22_Witness_OnlyNullPricesShown ==
    /\ filters.priceRange = <<50, 40>>
    /\ \E p \in Shown : p.price = NullPrice
    /\ \E p \in Range(PipelineWithoutPrice) \ Shown : p.price = 50


\* C23: the search index is rebuilt only when the repository changes: every
\* change of FilterState and every timer firing leaves the index as it was
\* without running its factory; a change of the repository runs the factory,
\* and the pipeline of that render uses the index built from the new
\* repository; the index is always the one built from the current repository.
C23_IndexRebuiltOnRepositoryChangeOnly ==
    /\ [](searchIndex = Fuse(allProducts))
    /\ [][/\ (filters' # filters \/ debouncedSearch' # debouncedSearch
                \/ timers' # timers) =>
                (~indexRebuilt' /\ searchIndex' = searchIndex)
          /\ allProducts' # allProducts =>
                /\ indexRebuilt'
                /\ searchIndex' = Fuse(allProducts')
                /\ filteredProducts' =
                      Pipeline(allProducts', filters', debouncedSearch', searchIndex')
         ]_vars

\* the repository was replaced while "ou" was committed: the index was
\* rebuilt and the list shown holds a match found in the new repository
C23_Witness_RebuiltForNewRepository ==
    /\ indexRebuilt
    /\ allProducts = <<P4, P2, P3>>
    /\ debouncedSearch = <<"o", "u">>
    /\ filters # DEFAULT_FILTERS
    /\ Len(filteredProducts) >= 1


----------------------------------------------------------------------------
(* Liveness of the debounce gate *)

\* the search text s has been committed and the list shown is the pipeline
\* output for it
Committed(s) ==
    /\ debouncedSearch = s
    /\ filteredProducts = Pipeline(allProducts, filters, s, searchIndex)

\* C24: after setSearch(s), unless the search text changes again or the
\* session is torn down, eventually the debounced value is s and
\* filteredProducts is the pipeline output for search text s.
C24_SearchEventuallyCommitted ==
    \A s \in SearchTexts :
        (filters.search = s) ~> (Committed(s) \/ filters.search # s \/ ~mounted)

\* the text "oud" went through the gate: it is committed, no timeout is
\* pending and the list shown is narrowed to its matches
C24_Witness_TextCommitted ==
    /\ mounted
    /\ filters.search = <<"o", "u", "d">>
    /\ Committed(<<"o", "u", "d">>)
    /\ timers = {}
    /\ Len(filteredProducts) < Len(PipelineWithoutSearch(allProducts, filters))


----------------------------------------------------------------------------
(* The price range under its collaborators *)

\* C25: in every state reached from the default FilterState through the
\* slider's thumbs, the price pill's reset and clearFilters,
\* filters.priceRange has lo <= hi; a thumb change leaves lo at least 10
\* below hi.
C25_CollaboratorsKeepRangeOrdered ==
    /\ [](filters.priceRange[1] <= filters.priceRange[2])
    /\ [][\A value \in SliderPositions :
             (handleMinChange(value) \/ handleMaxChange(value)) =>
                filters'.priceRange[1] + 10 <= filters'.priceRange[2]
         ]_vars

\* the min thumb was pushed against the max thumb and stopped 10 below it
C25_Witness_ThumbsTenApart ==
    /\ filters.priceRange[1] > 0
    /\ filters.priceRange[2] < 1000
    /\ filters.priceRange[2] - filters.priceRange[1] = 10


----------------------------------------------------------------------------
(* What a session with no active filter shows *)

\* C26 as stated: whenever activeFilterCount is 0 and the debounced search
\* text has length < 2, filteredProducts contains every product of the
\* repository.
C26_Original_NoActiveFilterHidesNothing ==
    (activeFilterCount = 0 /\ Len(debouncedSearch) < 2) => Shown = Products


----------------------------------------------------------------------------
(* Progressive loading in ProductGrid *)

\* C27 as stated: in every state where fewer products are visible than the
\* list holds, the load-more sentinel is observed (so that intersection
\* events can go on revealing products), also after the list is replaced by a
\* list of the same length once all products had been revealed.
C27_Original_SentinelObservedWhileHidden ==
    (grid # NoGrid /\ grid.visibleCount < grid.length) => grid.observed


----------------------------------------------------------------------------
(* The pipeline as an intersection *)

\* the products each step keeps of the full repository
KeptByGender == Range(GenderStep(allProducts, filters))
KeptBySearch == Range(SearchStep(allProducts, debouncedSearch, searchIndex))
KeptByBrand == Range(BrandStep(allProducts, filters))
KeptByType == Range(TypeStep(allProducts, filters))
KeptBySize == Range(SizeStep(allProducts, filters))
KeptByPrice == Range(PriceStep(allProducts, filters))

\* the steps applied in the opposite order
StepsReversed ==
    GenderStep(
        SearchStep(
            BrandStep(TypeStep(SizeStep(PriceStep(allProducts, filters), filters),
                               filters), filters),
            debouncedSearch, searchIndex),
        filters)

\* C28: filteredProducts holds each repository product that passes the
\* gender, debounced search, brand, type, size and price steps exactly once
\* and no other product; the products kept are the intersection of what
\* each step keeps of the full repository, the same in whatever order the
\* steps are applied, and sorting under the chosen option, whichever it
\* is, neither drops nor duplicates a product.
C28_PipelineIsIntersection ==
    /\ Shown = KeptByGender \cap KeptBySearch \cap KeptByBrand
                  \cap KeptByType \cap KeptBySize \cap KeptByPrice
    /\ \A i, j \in 1..Len(filteredProducts) :
          i # j => filteredProducts[i].id # filteredProducts[j].id
    /\ Shown \subseteq Products
    /\ Range(StepsReversed) = Shown
    /\ Len(sortProducts(StepsReversed, filters.sort)) = Len(StepsReversed)
    /\ Range(sortProducts(StepsReversed, filters.sort)) = Range(StepsReversed)
    /\ Len(sortProducts(allProducts, filters.sort)) = Len(allProducts)
    /\ Range(sortProducts(allProducts, filters.sort)) = Products

\* gender, committed search text and a size are applied together under a
\* sort other than the default; each removes a product and one is left
C28_Witness_SeveralStepsNarrow ==
    /\ filters.gender # "all"
    /\ Len(debouncedSearch) >= 2
    /\ filters.sizes # <<>>
    /\ filters.sort # "brand-asc"
    /\ Shown # {}
    /\ KeptByGender # Products
    /\ KeptBySearch # Products
    /\ KeptBySize # Products

====
